---- MODULE Spec2Model ----
(***************************************************************************)
(* AppNVM flash translation layer core (ftl/appnvm/app_core.c): the        *)
(* multi-plane page I/O executor, the sequential table transfer, the       *)
(* recency scanner, the bad-block table, the I/O buffer allocator, the     *)
(* global start-up and shutdown and the channel start-up and drain, each   *)
(* as a state machine over one set of variables.  Every component has a    *)
(* specification of its own; the variables of the other components stay   *)
(* at their idle values.                                                   *)
(***************************************************************************)
EXTENDS Integers, Sequences, FiniteSets, TLC

VARIABLES geo, flash, pgio, seq, scan, bbt, heap, glob, chan

vars == <<geo, flash, pgio, seq, scan, bbt, heap, glob, chan>>

(***************************************************************************)
(* Bounds of the model.                                                    *)
(***************************************************************************)
MaxPlanes == 4      \* n_of_planes ranges over 1..MaxPlanes
MaxLun == 1         \* lun ids 0..MaxLun
MaxBlk == 1         \* block ids 0..MaxBlk in executor requests
MaxPg == 1          \* page ids 0..MaxPg in executor requests
MaxEnt == 6         \* entries of a transferred table: 0..MaxEnt
MaxEpp == 4         \* ent_per_pg ranges over 0..MaxEpp
MaxEntrySz == 2     \* entry_sz ranges over 1..MaxEntrySz
MaxPgs == 2         \* pgs ranges over 0..MaxPgs
MaxPpb == 5         \* pg_per_blk ranges over 1..MaxPpb in the scanner
MaxStride == 3      \* the scanner's offset ranges over 0..MaxStride
MaxBpl == 2         \* blk_per_lun ranges over 1..MaxBpl in the bad-block table
MaxBbtCalls == 2    \* get/set calls per behaviour
MaxGlobCalls == 3   \* init-by-id / exit-by-id calls per behaviour
MaxCh == 2          \* channel slots of the channel-management collaborator
MaxChanCalls == 3   \* app_init_channel / app_exit calls per behaviour

(***************************************************************************)
(* Geometry fields the buffer layout is derived from (struct               *)
(* nvm_mmgr_geometry).  Sizes are in bytes.                                *)
(***************************************************************************)
pg_size == 4
sec_per_pg == 1
sec_oob_sz == 1

\* app_alloc_pg_io: data->meta_sz, data->buf_sz
meta_sz == sec_oob_sz * sec_per_pg
buf_sz(n_pl) == (pg_size + meta_sz) * n_pl

\* app_pg_io_prepare: data->pl_vec[pl], as an offset into data->buf
pl_vec(n_pl, pl) == pl * (buf_sz(n_pl) \div n_pl)

\* Bytes one plane command moves between the plane buffer and the media.
PlaneBytes == pg_size + meta_sz

MMGR_READ_PG == "MMGR_READ_PG"
MMGR_WRITE_PG == "MMGR_WRITE_PG"
MMGR_ERASE_BLK == "MMGR_ERASE_BLK"
CmdTypes == {MMGR_READ_PG, MMGR_WRITE_PG, MMGR_ERASE_BLK}

\* Return value of a failed command-descriptor allocation.
EMEM == 12
\* Nonzero results the media manager may give.
IoErrs == {-1, 5}
\* The media-manager id of the channel (ch->ch_mmgr_id).
ch_mmgr_id == 3
\* No buffer pointer (buf = NULL).
NoBuf == -1
\* Content of a byte of erased flash.
ErasedByte == 255

ZeroBuf(n) == [i \in 0..(n - 1) |-> 0]
ErasedPlane == [i \in 0..(PlaneBytes - 1) |-> ErasedByte]

\* memcpy (to + to_off, from + from_off, n) on byte arrays indexed from 0
memcpy(to, to_off, from, from_off, n) ==
    [i \in DOMAIN to |->
        IF i >= to_off /\ i < to_off + n THEN from[from_off + (i - to_off)]
        ELSE to[i]]

(***************************************************************************)
(* The media manager: one synchronous physical command.  res is the        *)
(* result the media gives for this command (0 on success).  A successful   *)
(* write stores the plane buffer, a successful read loads it, a successful *)
(* erase clears every page of the block on that plane.                     *)
(***************************************************************************)
FlashAddr(cmd) == <<cmd.ch, cmd.lun, cmd.blk, cmd.pg, cmd.pl>>

FlashRead(fl, a) == IF a \in DOMAIN fl THEN fl[a] ELSE ErasedPlane

nvm_submit_sync_io(st, cmd, cmdtype, res) ==
    LET off == cmd.buf
        a == FlashAddr(cmd)
    IN  IF res # 0 THEN st
        ELSE IF cmdtype = MMGR_WRITE_PG THEN
            [st EXCEPT !.flash =
                (a :> [i \in 0..(PlaneBytes - 1) |-> st.buf[off + i]]) @@ st.flash]
        ELSE IF cmdtype = MMGR_READ_PG THEN
            [st EXCEPT !.buf = memcpy(st.buf, off, FlashRead(st.flash, a), 0, PlaneBytes)]
        ELSE
            [st EXCEPT !.flash =
                [x \in {y \in DOMAIN st.flash :
                          ~(y[1] = cmd.ch /\ y[2] = cmd.lun /\ y[3] = cmd.blk /\ y[5] = cmd.pl)}
                    |-> st.flash[x]]]

\* The result of the command for plane pl under outcome out:
\* out.failAt is the first plane whose command fails (none when >= n_pl).
MmResult(out, pl) == IF pl = out.failAt THEN out.err ELSE 0

\* The outcomes one call can meet: the descriptor allocation fails, every
\* command succeeds, or the command for plane f fails with result e.
Outcomes(n_pl) ==
    {[malloc_ok |-> FALSE, failAt |-> n_pl, err |-> 0],
     [malloc_ok |-> TRUE, failAt |-> n_pl, err |-> 0]}
    \cup { [malloc_ok |-> TRUE, failAt |-> f, err |-> e] :
              f \in 0..(n_pl - 1), e \in IoErrs }

(***************************************************************************)
(* app_pg_io: the plane loop.  st carries ret, the commands submitted so   *)
(* far, io->buf and the media.                                             *)
(***************************************************************************)
\* A plane loop that does not stop at a failing command.
RECURSIVE app_pg_io_loop_nobreak(_, _, _, _, _, _)
app_pg_io_loop_nobreak(pl, st, n_pl, cmdtype, ppa, out) ==
    IF pl < n_pl THEN
        LET cmd == [blk |-> ppa.blk, pl |-> pl, ch |-> ch_mmgr_id,
                    lun |-> ppa.lun, pg |-> ppa.pg,
                    buf |-> IF cmdtype # MMGR_ERASE_BLK THEN pl_vec(n_pl, pl) ELSE NoBuf]
            ret == MmResult(out, pl)
            st1 == nvm_submit_sync_io(st, cmd, cmdtype, ret)
            st2 == [st1 EXCEPT !.ret = ret, !.cmds = Append(st.cmds, cmd)]
        IN  app_pg_io_loop_nobreak(pl + 1, st2, n_pl, cmdtype, ppa, out)
    ELSE st

RECURSIVE app_pg_io_loop(_, _, _, _, _, _)
app_pg_io_loop(pl, st, n_pl, cmdtype, ppa, out) ==
    IF pl < n_pl THEN
        LET cmd == [blk |-> ppa.blk, pl |-> pl, ch |-> ch_mmgr_id,
                    lun |-> ppa.lun, pg |-> ppa.pg,
                    buf |-> IF cmdtype # MMGR_ERASE_BLK THEN pl_vec(n_pl, pl) ELSE NoBuf]
            ret == MmResult(out, pl)
            st1 == nvm_submit_sync_io(st, cmd, cmdtype, ret)
            st2 == [st1 EXCEPT !.ret = ret, !.cmds = Append(st.cmds, cmd)]
        IN  IF ret # 0 THEN st2
            ELSE app_pg_io_loop(pl + 1, st2, n_pl, cmdtype, ppa, out)
    ELSE st

app_pg_io(st, n_pl, cmdtype, ppa, out) ==
    IF ~out.malloc_ok THEN [st EXCEPT !.ret = EMEM, !.cmds = <<>>]
    ELSE app_pg_io_loop(0, [st EXCEPT !.ret = -1, !.cmds = <<>>], n_pl, cmdtype, ppa, out)

(***************************************************************************)
(* app_io_rsv_blk: the same plane loop against lun 0 of a reserved block.  *)
(***************************************************************************)
RECURSIVE app_io_rsv_blk_loop(_, _, _, _, _, _, _)
app_io_rsv_blk_loop(pl, st, n_pl, cmdtype, blk, pg, out) ==
    IF pl < n_pl THEN
        LET cmd == [blk |-> blk, pl |-> pl, ch |-> ch_mmgr_id,
                    lun |-> 0, pg |-> pg,
                    buf |-> IF cmdtype # MMGR_ERASE_BLK THEN pl_vec(n_pl, pl) ELSE NoBuf]
            ret == MmResult(out, pl)
            st1 == nvm_submit_sync_io(st, cmd, cmdtype, ret)
            st2 == [st1 EXCEPT !.ret = ret, !.cmds = Append(st.cmds, cmd)]
        IN  IF ret # 0 THEN st2
            ELSE app_io_rsv_blk_loop(pl + 1, st2, n_pl, cmdtype, blk, pg, out)
    ELSE st

\* A reserved-block I/O that addresses lun 1.
app_io_rsv_blk_lun1(st, n_pl, cmdtype, blk, pg, out) ==
    app_pg_io(st, n_pl, cmdtype, [lun |-> 1, blk |-> blk, pg |-> pg], out)

app_io_rsv_blk(st, n_pl, cmdtype, blk, pg, out) ==
    IF ~out.malloc_ok THEN [st EXCEPT !.ret = EMEM, !.cmds = <<>>]
    ELSE app_io_rsv_blk_loop(0, [st EXCEPT !.ret = -1, !.cmds = <<>>], n_pl, cmdtype, blk, pg, out)

(***************************************************************************)
(* Idle values of the components.                                          *)
(***************************************************************************)
NoReq == [cmdtype |-> "none", lun |-> 0, blk |-> 0, pg |-> 0]
NoOut == [malloc_ok |-> TRUE, failAt |-> 0, err |-> 0]

PgIoIdle == pgio = [fn |-> "none", req |-> NoReq, out |-> NoOut,
                    ret |-> 0, cmds |-> <<>>, buf |-> <<>>]
SeqIdle == seq = [pc |-> "off"]
ScanIdle == scan = [pc |-> "off"]
BbtIdle == bbt = [pc |-> "off"]
HeapIdle == heap = [pc |-> "off"]
GlobIdle == glob = [pc |-> "off"]
ChanIdle == chan = [pc |-> "off"]

Geometries == { [n_of_planes |-> n] : n \in 1..MaxPlanes }

(***************************************************************************)
(* The executor driven by arbitrary requests (SpecPgIo).                   *)
(***************************************************************************)
PgIoInit ==
    /\ geo \in Geometries
    /\ flash = <<>>
    /\ pgio = [fn |-> "none", req |-> NoReq, out |-> NoOut,
               ret |-> 0, cmds |-> <<>>, buf |-> ZeroBuf(buf_sz(geo.n_of_planes))]
    /\ SeqIdle /\ ScanIdle /\ BbtIdle /\ HeapIdle /\ GlobIdle /\ ChanIdle

PgIoRequests ==
    { [cmdtype |-> t, lun |-> l, blk |-> b, pg |-> p] :
        t \in CmdTypes, l \in 0..MaxLun, b \in 0..MaxBlk, p \in 0..MaxPg }

\* One call of app_pg_io with the buffer's plane pointers.
PgIoCall ==
    /\ pgio.fn = "none"
    /\ \E req \in PgIoRequests, out \in Outcomes(geo.n_of_planes) :
         LET st == app_pg_io([ret |-> 0, cmds |-> <<>>, buf |-> pgio.buf, flash |-> flash],
                             geo.n_of_planes, req.cmdtype, req, out)
         IN  /\ pgio' = [fn |-> "app_pg_io", req |-> req,
                         out |-> out, ret |-> st.ret, cmds |-> st.cmds, buf |-> st.buf]
             /\ flash' = st.flash
    /\ UNCHANGED <<geo, seq, scan, bbt, heap, glob, chan>>

\* One call of app_io_rsv_blk with the buffer's plane pointers; it has no
\* lun argument.
RsvBlkCall ==
    /\ pgio.fn = "none"
    /\ \E req \in PgIoRequests, out \in Outcomes(geo.n_of_planes) :
         LET st == app_io_rsv_blk([ret |-> 0, cmds |-> <<>>, buf |-> pgio.buf,
                                   flash |-> flash],
                                  geo.n_of_planes, req.cmdtype, req.blk, req.pg, out)
         IN  /\ req.lun = 0
             /\ pgio' = [fn |-> "app_io_rsv_blk", req |-> req,
                         out |-> out, ret |-> st.ret, cmds |-> st.cmds, buf |-> st.buf]
             /\ flash' = st.flash
    /\ UNCHANGED <<geo, seq, scan, bbt, heap, glob, chan>>

PgIoNext == PgIoCall \/ RsvBlkCall

SpecPgIo == PgIoInit /\ [][PgIoNext]_vars

(***************************************************************************)
(* app_nvm_seq_transfer, one step per page I/O and per plane copy.         *)
(*   seq.par       the arguments: ppa, pgs, ent_per_pg, ent_cnt (the       *)
(*                 initial ent_left), entry_sz, reserved                   *)
(*   seq.direction APP_TRANS_TO_NVM or APP_TRANS_FROM_NVM                  *)
(*   seq.i, seq.pl, seq.ent_left   the locals of the two loops             *)
(*   seq.user_buf  the caller's table, ent_cnt * entry_sz bytes            *)
(*   seq.buf       io->buf                                                 *)
(*   seq.iolog     the page I/O calls of the running call, in order        *)
(*   seq.filled    planes whose buffer the current page's loop has copied  *)
(*   seq.copies    the plane copies of the running call, in order          *)
(*   seq.overrun   a copy has touched memory beyond the caller's table     *)
(*   seq.stored    a to-flash call has returned 0                          *)
(***************************************************************************)
APP_TRANS_TO_NVM == "APP_TRANS_TO_NVM"
APP_TRANS_FROM_NVM == "APP_TRANS_FROM_NVM"
APP_IO_NORMAL == "APP_IO_NORMAL"
APP_IO_RESERVED == "APP_IO_RESERVED"
IoTypes == {APP_IO_NORMAL, APP_IO_RESERVED, "unknown"}

\* app_pg_io_switch
app_pg_io_switch(st, n_pl, cmdtype, ppa, type, out) ==
    IF type = APP_IO_NORMAL THEN app_pg_io(st, n_pl, cmdtype, ppa, out)
    ELSE IF type = APP_IO_RESERVED THEN
        app_io_rsv_blk(st, n_pl, cmdtype, ppa.blk, ppa.pg, out)
    ELSE [st EXCEPT !.ret = -1, !.cmds = <<>>]

\* The table the caller passes to a to-flash call: byte b holds b + 1.
TablePattern(n) == [b \in 0..(n - 1) |-> b + 1]
\* Values a read beyond the end of the caller's table may produce.
JunkBytes == {0, 99}

StartPpa == [lun |-> MaxLun, blk |-> MaxBlk, pg |-> MaxPg]

\* The arguments of the calls of one behaviour.  The bytes one plane takes
\* fit the data area of a plane buffer.
SeqParams(n_pl) ==
    { [ppa |-> StartPpa, pgs |-> g, ent_per_pg |-> e, ent_cnt |-> n,
       entry_sz |-> z, reserved |-> r] :
        g \in 0..MaxPgs, e \in 0..MaxEpp, n \in 0..MaxEnt,
        z \in 1..MaxEntrySz, r \in IoTypes }

SeqFits(par, n_pl) == (par.ent_per_pg \div n_pl) * par.entry_sz <= pg_size

SeqInit ==
    /\ geo \in Geometries
    /\ flash = <<>>
    /\ \E par \in SeqParams(geo.n_of_planes) :
         /\ SeqFits(par, geo.n_of_planes)
         /\ seq = [pc |-> "idle", par |-> par, direction |-> "none", call |-> 0,
                   i |-> 0, pl |-> 0, ent_left |-> 0, ret |-> 0,
                   user_buf |-> <<>>, buf |-> ZeroBuf(buf_sz(geo.n_of_planes)),
                   iolog |-> <<>>, filled |-> {}, copies |-> <<>>,
                   overrun |-> FALSE,
                   stored |-> FALSE]
    /\ PgIoIdle /\ ScanIdle /\ BbtIdle /\ HeapIdle /\ GlobIdle /\ ChanIdle

pg_ent_sz(par) == par.ent_per_pg * par.entry_sz

\* trf_sz of the plane copy
trf_sz(par, n_pl, ent_left) ==
    IF ent_left >= par.ent_per_pg \div n_pl
        THEN (par.ent_per_pg \div n_pl) * par.entry_sz
        ELSE ent_left * par.entry_sz

\* user_buf + (pg_ent_sz * i) + (pl * (pg_ent_sz / io->n_pl)), as a byte offset
user_off(par, n_pl, i, pl) ==
    (pg_ent_sz(par) * i) + (pl * (pg_ent_sz(par) \div n_pl))

\* ent_left after one plane copy
ent_left_next(par, n_pl, ent_left) ==
    IF ent_left >= par.ent_per_pg \div n_pl
        THEN ent_left - (par.ent_per_pg \div n_pl)
        ELSE 0

\* A page loop that issues the write of a page before its copy loop.
SeqPageHead_writefirst(s, i) ==
    IF i < s.par.pgs THEN
        [s EXCEPT !.i = i, !.pl = 0, !.filled = {},
                  !.pc = IF s.direction = APP_TRANS_FROM_NVM THEN "read" ELSE "write"]
    ELSE [s EXCEPT !.i = i, !.pc = "done", !.ret = 0,
                   !.stored = s.stored \/ s.direction = APP_TRANS_TO_NVM]

\* The head of the page loop: for (i = 0; i < pgs; i++), then return 0.
SeqPageHead(s, i) ==
    IF i < s.par.pgs THEN
        [s EXCEPT !.i = i, !.pl = 0, !.filled = {},
                  !.pc = IF s.direction = APP_TRANS_FROM_NVM THEN "read" ELSE "copy"]
    ELSE [s EXCEPT !.i = i, !.pc = "done", !.ret = 0,
                   !.stored = s.stored \/ s.direction = APP_TRANS_TO_NVM]

\* A call starts.  The first call has either direction; a second call is
\* the read back of a table the first call has written.
SeqStart ==
    /\ \/ seq.pc = "idle"
       \/ /\ seq.pc = "done" /\ seq.call = 1
          /\ seq.direction = APP_TRANS_TO_NVM /\ seq.ret = 0
    /\ \E d \in {APP_TRANS_TO_NVM, APP_TRANS_FROM_NVM} :
         /\ seq.pc = "done" => d = APP_TRANS_FROM_NVM
         /\ LET n == seq.par.ent_cnt * seq.par.entry_sz
                s0 == [seq EXCEPT !.direction = d, !.call = seq.call + 1,
                          !.ent_left = seq.par.ent_cnt, !.ret = 0,
                          !.user_buf = IF d = APP_TRANS_TO_NVM THEN TablePattern(n)
                                       ELSE ZeroBuf(n),
                          !.iolog = <<>>, !.copies = <<>>, !.overrun = FALSE]
            IN  seq' = SeqPageHead(s0, 0)
    /\ UNCHANGED <<geo, flash, pgio, scan, bbt, heap, glob, chan>>

\* One page I/O through app_pg_io_switch, at page start_pg + i.
SeqPageIo(cmdtype, out) ==
    LET ppa_io == [seq.par.ppa EXCEPT !.pg = seq.par.ppa.pg + seq.i]
    IN  app_pg_io_switch([ret |-> 0, cmds |-> <<>>, buf |-> seq.buf, flash |-> flash],
                         geo.n_of_planes, cmdtype, ppa_io, seq.par.reserved, out)

SeqLogged(s, cmdtype, st) ==
    [s EXCEPT !.buf = st.buf,
              !.iolog = Append(s.iolog, [cmdtype |-> cmdtype, i |-> s.i, ret |-> st.ret,
                                         cmds |-> st.cmds])]

\* A read step that goes on to the copy loop whatever the read returned.
SeqRead_ignorefail ==
    /\ seq.pc = "read"
    /\ \E out \in Outcomes(geo.n_of_planes) :
         LET st == SeqPageIo(MMGR_READ_PG, out)
             s1 == SeqLogged(seq, MMGR_READ_PG, st)
         IN  /\ flash' = st.flash
             /\ seq' = [s1 EXCEPT !.pc = "copy", !.pl = 0]
    /\ UNCHANGED <<geo, pgio, scan, bbt, heap, glob, chan>>

\* if (direction == APP_TRANS_FROM_NVM) if (app_pg_io_switch (MMGR_READ_PG)) return -1;
SeqRead ==
    /\ seq.pc = "read"
    /\ \E out \in Outcomes(geo.n_of_planes) :
         LET st == SeqPageIo(MMGR_READ_PG, out)
             s1 == SeqLogged(seq, MMGR_READ_PG, st)
         IN  /\ flash' = st.flash
             /\ seq' = IF st.ret # 0 THEN [s1 EXCEPT !.pc = "done", !.ret = -1]
                       ELSE [s1 EXCEPT !.pc = "copy", !.pl = 0]
    /\ UNCHANGED <<geo, pgio, scan, bbt, heap, glob, chan>>

\* One iteration of for (pl = 0; pl < io->n_pl; pl++): the memcpy, the
\* update of ent_left and the break; after the last iteration the loop is
\* left for the write or for the next page.
SeqCopy ==
    /\ seq.pc = "copy"
    /\ \E junk \in JunkBytes :
         LET n_pl == geo.n_of_planes
             sz == trf_sz(seq.par, n_pl, seq.ent_left)
             uoff == user_off(seq.par, n_pl, seq.i, seq.pl)
             poff == pl_vec(n_pl, seq.pl)
             ulen == seq.par.ent_cnt * seq.par.entry_sz
             \* the bytes the copy reads from the caller's memory
             src == [b \in 0..(uoff + sz - 1) |->
                        IF b < ulen THEN seq.user_buf[b] ELSE junk]
             left == ent_left_next(seq.par, n_pl, seq.ent_left)
             s1 == [seq EXCEPT
                     !.buf = IF seq.direction = APP_TRANS_TO_NVM
                                 THEN memcpy(seq.buf, poff, src, uoff, sz)
                                 ELSE seq.buf,
                     !.user_buf = IF seq.direction = APP_TRANS_TO_NVM
                                 THEN seq.user_buf
                                 ELSE memcpy(seq.user_buf, uoff, seq.buf, poff, sz),
                     !.overrun = seq.overrun \/ (sz > 0 /\ uoff + sz > ulen),
                     !.ent_left = left,
                     !.filled = seq.filled \cup {seq.pl},
                     !.copies = Append(seq.copies,
                                       [i |-> seq.i, pl |-> seq.pl, uoff |-> uoff,
                                        sz |-> sz, left |-> seq.ent_left])]
             out_of_loop == left = 0 \/ seq.pl + 1 >= n_pl
         IN  /\ (sz > 0 /\ uoff + sz > ulen /\ seq.direction = APP_TRANS_TO_NVM)
                   \/ junk = 0
             /\ seq' = IF ~out_of_loop THEN [s1 EXCEPT !.pl = seq.pl + 1]
                       ELSE IF seq.direction = APP_TRANS_TO_NVM
                           THEN [s1 EXCEPT !.pc = "write"]
                       ELSE SeqPageHead(s1, seq.i + 1)
    /\ UNCHANGED <<geo, flash, pgio, scan, bbt, heap, glob, chan>>

\* if (direction == APP_TRANS_TO_NVM) if (app_pg_io_switch (MMGR_WRITE_PG)) return -1;
SeqWrite ==
    /\ seq.pc = "write"
    /\ \E out \in Outcomes(geo.n_of_planes) :
         LET st == SeqPageIo(MMGR_WRITE_PG, out)
             s1 == SeqLogged(seq, MMGR_WRITE_PG, st)
         IN  /\ flash' = st.flash
             /\ seq' = IF st.ret # 0 THEN [s1 EXCEPT !.pc = "done", !.ret = -1]
                       ELSE SeqPageHead(s1, seq.i + 1)
    /\ UNCHANGED <<geo, pgio, scan, bbt, heap, glob, chan>>

SeqNext == SeqStart \/ SeqRead \/ SeqCopy \/ SeqWrite

SpecSeq == SeqInit /\ [][SeqNext]_vars

(***************************************************************************)
(* app_blk_current_page, one step per page read.                           *)
(*   scan.par     blk_id, offset, and whether the caller passed io         *)
(*   scan.stamped the pages of the block whose plane-0 out-of-band area    *)
(*                starts with APP_MAGIC                                    *)
(*   scan.pg, scan.ret, scan.fr   the locals                               *)
(*   scan.buf     io->buf                                                  *)
(*   scan.io_live the scratch buffer allocated by the call is live         *)
(*   scan.reads   the page reads so far: page and result                   *)
(*   scan.result  the value returned                                       *)
(***************************************************************************)
APP_MAGIC == 60

ScanGeometries ==
    { [n_of_planes |-> n, pg_per_blk |-> p] : n \in {1, 2}, p \in 1..MaxPpb }

\* A committed page: plane 0 carries the stamp at the start of its
\* out-of-band area.
StampedPlane == [i \in 0..(PlaneBytes - 1) |-> IF i = pg_size THEN APP_MAGIC ELSE 0]

\* The reserved block with the pages of S committed and the others erased.
ScanFlash(blk, S) ==
    [a \in {<<ch_mmgr_id, 0, blk, pg, 0>> : pg \in S} |-> StampedPlane]

\* The reads of one behaviour fail with one result.
ScanOutcomes(n_pl) == {o \in Outcomes(n_pl) : o.err \in {0, -1}}

\* More reads than any terminating scan makes.
ReadCap == MaxPpb + 2

ScanInit ==
    /\ geo \in ScanGeometries
    /\ \E S \in SUBSET (0..(geo.pg_per_blk - 1)), off \in 0..MaxStride, given \in BOOLEAN :
         /\ flash = ScanFlash(MaxBlk, S)
         /\ scan = [pc |-> "idle",
                    par |-> [blk_id |-> MaxBlk, offset |-> off, io_given |-> given],
                    stamped |-> S, pg |-> 0, ret |-> 0, fr |-> 0,
                    buf |-> ZeroBuf(buf_sz(geo.n_of_planes)), io_live |-> FALSE,
                    reads |-> <<>>, result |-> 0]
    /\ PgIoIdle /\ SeqIdle /\ BbtIdle /\ HeapIdle /\ GlobIdle /\ ChanIdle

\* A scan that reports not-found when it stops at page 0.
scan_result_notfound0(ret, pg) == IF ret = 0 /\ pg # 0 THEN pg ELSE -1

\* A scan that returns the page cursor also when the last read failed.
scan_result_keeppg(ret, pg) == pg

\* return (!ret) ? pg : -1;
scan_result(ret, pg) == IF ret = 0 THEN pg ELSE -1

\* if (io == NULL) { io = app_alloc_pg_io (lch); if (io == NULL) return -1; fr++; }
ScanStart ==
    /\ scan.pc = "idle"
    /\ \E alloc_ok \in BOOLEAN :
         /\ scan.par.io_given => alloc_ok
         /\ scan' = IF scan.par.io_given THEN [scan EXCEPT !.pc = "read", !.pg = 0]
                    ELSE IF ~alloc_ok THEN [scan EXCEPT !.pc = "done", !.result = -1]
                    ELSE [scan EXCEPT !.pc = "read", !.pg = 0, !.fr = 1,
                                      !.io_live = TRUE]
    /\ UNCHANGED <<geo, flash, pgio, seq, bbt, heap, glob, chan>>

\* One iteration of the do-while loop; when the loop is left, the scratch
\* buffer is released and the result returned.
ScanRead ==
    /\ scan.pc = "read"
    /\ Len(scan.reads) < ReadCap
    /\ \E out \in ScanOutcomes(geo.n_of_planes) :
         LET zeroed == ZeroBuf(buf_sz(geo.n_of_planes))
             st == app_io_rsv_blk([ret |-> 0, cmds |-> <<>>, buf |-> zeroed, flash |-> flash],
                                  geo.n_of_planes, MMGR_READ_PG,
                                  scan.par.blk_id, scan.pg, out)
             magic == st.buf[pg_size]
             brk == st.ret # 0 \/ magic # APP_MAGIC
             pg1 == IF brk THEN scan.pg ELSE scan.pg + scan.par.offset
             again == ~brk /\ pg1 < geo.pg_per_blk - scan.par.offset
             s1 == [scan EXCEPT !.buf = st.buf, !.ret = st.ret, !.pg = pg1,
                                !.reads = Append(scan.reads,
                                                 [pg |-> scan.pg, ret |-> st.ret])]
         IN  /\ flash' = st.flash
             /\ scan' = IF again THEN s1
                        ELSE [s1 EXCEPT !.pc = "done", !.io_live = FALSE,
                                        !.result = scan_result(st.ret, pg1)]
    /\ UNCHANGED <<geo, pgio, seq, bbt, heap, glob, chan>>

ScanNext == ScanStart \/ ScanRead

SpecScan == ScanInit /\ [][ScanNext]_vars

(***************************************************************************)
(* app_ftl_get_bbtbl and app_ftl_set_bbtbl on the table of one channel.    *)
(*   bbt.tbl        lch->bbtbl->tbl, one byte per (lun, block, plane)      *)
(*   bbt.persisted  what the flush collaborator has stored on the media    *)
(*   bbt.flushes    calls of bbt.flush_fn so far                           *)
(*   bbt.last_flush whether the last call of bbt.flush_fn succeeded        *)
(*   bbt.changes    set calls so far that changed a stored value           *)
(*   bbt.prev       the call before the last one when it was a set that    *)
(*                  returned 0                                             *)
(*   bbt.last       the last call: arguments, result, the table before it, *)
(*                  the caller's buffer before and after it, the flush     *)
(*                  calls it made and what the last of them returned       *)
(***************************************************************************)
BbtGeometries ==
    { [n_of_planes |-> n, blk_per_lun |-> b, lun_per_ch |-> MaxLun + 1] :
        n \in {1, 2}, b \in 1..MaxBpl }

BbtLen(g) == g.lun_per_ch * g.blk_per_lun * g.n_of_planes
\* Content of the caller's buffer before a get.
FreshByte == 7
\* The value argument of a set: block good, block bad.
BbtValues == {0, 1}

NoBbtCall == [fn |-> "none", lun |-> 0, blk |-> 0, pl |-> 0, value |-> 0, nb |-> 0,
              ret |-> 0, flushed |-> 0, flush_ret |-> 0,
              tbl_before |-> <<>>, out_before |-> <<>>, out |-> <<>>]

\* What is kept of the call before the last one: a set that succeeded.
PrevSet(c) == IF c.fn = "set" /\ c.ret = 0 THEN c ELSE NoBbtCall

BbtInit ==
    /\ geo \in BbtGeometries
    /\ flash = <<>>
    /\ bbt = [pc |-> "ready", calls |-> 0,
              tbl |-> ZeroBuf(BbtLen(geo)), persisted |-> ZeroBuf(BbtLen(geo)),
              flushes |-> 0, changes |-> 0, last_flush |-> "none",
              last |-> NoBbtCall, prev |-> NoBbtCall]
    /\ PgIoIdle /\ SeqIdle /\ ScanIdle /\ HeapIdle /\ GlobIdle /\ ChanIdle

\* A get that rejects only a length beyond the lun's slice.
bbt_get_invalid_toolong(g, bbtbl_null, nb) ==
    bbtbl_null \/ nb > g.blk_per_lun * (g.n_of_planes % 65536)

\* nvm_memcheck (bbtbl) || nvm_memcheck (ch) || nb != blk_per_lun * (n_of_planes & 0xffff)
bbt_get_invalid(g, bbtbl_null, nb) ==
    bbtbl_null \/ nb # g.blk_per_lun * (g.n_of_planes % 65536)

\* (ppa->g.blk * n_pl + ppa->g.pl) > (blk_per_lun * n_pl - 1)
bbt_set_invalid(g, blk, pl) ==
    (blk * g.n_of_planes + pl) > (g.blk_per_lun * g.n_of_planes - 1)

\* A slice address that leaves the lun out.
bbt_l_addr_nolun(g, lun) == 0

\* l_addr = ppa->g.lun * blk_per_lun * n_of_planes
bbt_l_addr(g, lun) == lun * g.blk_per_lun * g.n_of_planes

\* A set that does not flush.
bbt_flush_never(cur, value) == 0

\* A set that flushes whatever the stored value.
bbt_flush_always(cur, value) == 1

\* flush = (tbl[...] == value) ? 0 : 1
bbt_flush(cur, value) == IF cur = value THEN 0 ELSE 1

\* A set that returns the result of its flush.
set_ret_flush(flush, flush_res) == IF flush # 0 THEN flush_res ELSE 0

\* if (flush) { ret = bbt.flush_fn (lch); if (ret) log_info (...); }  return 0;
set_ret(flush, flush_res) == 0

\* bbt.flush_fn: persists the whole table of the channel when it succeeds.
flush_fn(persisted, tbl, res) == IF res = 0 THEN tbl ELSE persisted

BbtGet ==
    /\ bbt.pc = "ready" /\ bbt.calls < MaxBbtCalls
    /\ \E lun \in 0..MaxLun, nb \in 0..(MaxBpl * 2 + 1), bbtbl_null \in BOOLEAN :
         LET l_addr == bbt_l_addr(geo, lun)
             out0 == [i \in 0..(nb - 1) |-> FreshByte]
             bad == bbt_get_invalid(geo, bbtbl_null, nb)
             out1 == IF bad THEN out0 ELSE memcpy(out0, 0, bbt.tbl, l_addr, nb)
         IN  /\ nb <= BbtLen(geo) - l_addr
             /\ bbt' = [bbt EXCEPT
                          !.calls = bbt.calls + 1,
                          !.prev = PrevSet(bbt.last),
                          !.last = [fn |-> "get", lun |-> lun, blk |-> 0, pl |-> 0,
                                    value |-> 0, nb |-> nb,
                                    ret |-> IF bad THEN -1 ELSE 0,
                                    flushed |-> 0, flush_ret |-> 0,
                                    tbl_before |-> bbt.tbl,
                                    out_before |-> IF bbtbl_null THEN <<>> ELSE out0,
                                    out |-> IF bbtbl_null THEN <<>> ELSE out1]]
    /\ UNCHANGED <<geo, flash, pgio, seq, scan, heap, glob, chan>>

BbtSet ==
    /\ bbt.pc = "ready" /\ bbt.calls < MaxBbtCalls
    /\ \E lun \in 0..MaxLun, blk \in 0..MaxBpl, pl \in 0..2,
          value \in BbtValues, flush_res \in {0, -1} :
         LET n_pl == geo.n_of_planes
             bad == bbt_set_invalid(geo, blk, pl)
             l_addr == bbt_l_addr(geo, lun)
             at == l_addr + (blk * n_pl + pl)
             flush == IF bad THEN 0 ELSE bbt_flush(bbt.tbl[at], value)
             tbl1 == IF bad THEN bbt.tbl ELSE [bbt.tbl EXCEPT ![at] = value]
         IN  /\ flush = 0 => flush_res = 0
             /\ bbt' = [bbt EXCEPT
                          !.calls = bbt.calls + 1,
                          !.prev = PrevSet(bbt.last),
                          !.tbl = tbl1,
                          !.persisted = IF flush # 0
                                          THEN flush_fn(bbt.persisted, tbl1, flush_res)
                                          ELSE bbt.persisted,
                          !.flushes = bbt.flushes + (IF flush # 0 THEN 1 ELSE 0),
                          !.last_flush = IF flush = 0 THEN bbt.last_flush
                                         ELSE IF flush_res = 0 THEN "ok" ELSE "fail",
                          !.changes = bbt.changes + (IF tbl1 # bbt.tbl THEN 1 ELSE 0),
                          !.last = [fn |-> "set", lun |-> lun, blk |-> blk, pl |-> pl,
                                    value |-> value, nb |-> 0,
                                    ret |-> IF bad THEN -1 ELSE set_ret(flush, flush_res),
                                    flushed |-> IF flush # 0 THEN 1 ELSE 0,
                                    flush_ret |-> flush_res,
                                    tbl_before |-> bbt.tbl,
                                    out_before |-> <<>>, out |-> <<>>]]
    /\ UNCHANGED <<geo, flash, pgio, seq, scan, heap, glob, chan>>

BbtNext == BbtGet \/ BbtSet

SpecBbt == BbtInit /\ [][BbtNext]_vars

(***************************************************************************)
(* app_alloc_pg_io and app_free_pg_io, one step per malloc and per free.   *)
(*   heap.pc     the statement the call is at                              *)
(*   heap.pl     the local pl                                              *)
(*   heap.live   the blocks allocated and not freed                        *)
(*   heap.acq    the blocks in the order they were allocated               *)
(*   heap.rel    the blocks in the order they were freed                   *)
(*   heap.bad_free  free was called on a block that is not live            *)
(*   heap.result what app_alloc_pg_io returned                             *)
(* A block is named by the field that points to it: <<"sec_vec_pl", pl>>   *)
(* is data->sec_vec[pl].                                                   *)
(***************************************************************************)
B_data == <<"data", 0>>
B_buf == <<"buf", 0>>
B_pl_vec == <<"pl_vec", 0>>
B_oob_vec == <<"oob_vec", 0>>
B_sec_vec == <<"sec_vec", 0>>
B_sec_vec_pl(pl) == <<"sec_vec_pl", pl>>

HeapInit ==
    /\ geo \in Geometries
    /\ flash = <<>>
    /\ heap = [pc |-> "idle", pl |-> 0, live |-> {}, acq |-> <<>>, rel |-> <<>>,
               bad_free |-> FALSE, result |-> "none"]
    /\ PgIoIdle /\ SeqIdle /\ ScanIdle /\ BbtIdle /\ GlobIdle /\ ChanIdle

\* x = malloc (...): on success the block is live and the call goes on at
\* next, on failure it goes to the label fail.
Malloc(h, x, ok, next, fail) ==
    IF ok THEN [h EXCEPT !.live = h.live \cup {x}, !.acq = Append(h.acq, x), !.pc = next]
    ELSE [h EXCEPT !.pc = fail]

\* free (x), then on to next
Free(h, x, next) ==
    IF x \in h.live
        THEN [h EXCEPT !.live = h.live \ {x}, !.rel = Append(h.rel, x), !.pc = next]
        ELSE [h EXCEPT !.bad_free = TRUE, !.pc = next]

HeapFrame == UNCHANGED <<geo, flash, pgio, seq, scan, bbt, glob, chan>>

\* data = malloc (sizeof (struct app_io_data)); if (!data) return NULL;
AllocData ==
    /\ heap.pc = "idle"
    /\ \E ok \in BOOLEAN :
         heap' = IF ok THEN Malloc(heap, B_data, TRUE, "buf", "buf")
                 ELSE [heap EXCEPT !.pc = "failed", !.result = "NULL"]
    /\ HeapFrame

\* data->buf = calloc (data->buf_sz, 1); if (!data->buf) goto FREE;
AllocBuf ==
    /\ heap.pc = "buf"
    /\ \E ok \in BOOLEAN : heap' = Malloc(heap, B_buf, ok, "pl_vec", "FREE")
    /\ HeapFrame

\* data->pl_vec = malloc (...); if (!data->pl_vec) goto FREE_BUF;
AllocPlVec ==
    /\ heap.pc = "pl_vec"
    /\ \E ok \in BOOLEAN : heap' = Malloc(heap, B_pl_vec, ok, "oob_vec", "FREE_BUF")
    /\ HeapFrame

\* data->oob_vec = malloc (...); if (!data->oob_vec) goto FREE_VEC;
AllocOobVec ==
    /\ heap.pc = "oob_vec"
    /\ \E ok \in BOOLEAN : heap' = Malloc(heap, B_oob_vec, ok, "sec_vec", "FREE_VEC")
    /\ HeapFrame

\* data->sec_vec = malloc (...); if (!data->sec_vec) goto FREE_OOB;
\* then the head of for (pl = 0; pl < data->n_pl; pl++)
AllocSecVec ==
    /\ heap.pc = "sec_vec"
    /\ \E ok \in BOOLEAN :
         heap' = [Malloc(heap, B_sec_vec, ok, "sec_vec_pl", "FREE_OOB") EXCEPT !.pl = 0]
    /\ HeapFrame

\* data->sec_vec[pl] = malloc (...); if (!data->sec_vec[pl]) goto FREE_SEC;
\* after the last plane: app_pg_io_prepare (lch, data); return data;
AllocSecVecPl ==
    /\ heap.pc = "sec_vec_pl"
    /\ \E ok \in BOOLEAN :
         LET h1 == Malloc(heap, B_sec_vec_pl(heap.pl), ok, "sec_vec_pl", "FREE_SEC")
         IN  heap' = IF ~ok THEN h1
                     ELSE IF heap.pl + 1 < geo.n_of_planes
                         THEN [h1 EXCEPT !.pl = heap.pl + 1]
                     ELSE [h1 EXCEPT !.pl = heap.pl + 1, !.pc = "allocated",
                                     !.result = "data"]
    /\ HeapFrame

\* An unwinding that leaves the per-plane sector arrays allocated.
LabelFreeSec_leak ==
    /\ heap.pc = "FREE_SEC"
    /\ heap' = Free([heap EXCEPT !.pl = 0], B_sec_vec, "FREE_OOB")
    /\ HeapFrame

\* FREE_SEC: while (pl) { pl--; free (data->sec_vec[pl]); } free (data->sec_vec);
LabelFreeSec ==
    /\ heap.pc = "FREE_SEC"
    /\ heap' = IF heap.pl # 0
                 THEN Free([heap EXCEPT !.pl = heap.pl - 1],
                           B_sec_vec_pl(heap.pl - 1), "FREE_SEC")
                 ELSE Free(heap, B_sec_vec, "FREE_OOB")
    /\ HeapFrame

\* FREE_OOB: free (data->oob_vec);
LabelFreeOob ==
    /\ heap.pc = "FREE_OOB"
    /\ heap' = Free(heap, B_oob_vec, "FREE_VEC")
    /\ HeapFrame

\* FREE_VEC: free (data->pl_vec);
LabelFreeVec ==
    /\ heap.pc = "FREE_VEC"
    /\ heap' = Free(heap, B_pl_vec, "FREE_BUF")
    /\ HeapFrame

\* FREE_BUF: free (data->buf);
LabelFreeBuf ==
    /\ heap.pc = "FREE_BUF"
    /\ heap' = Free(heap, B_buf, "FREE")
    /\ HeapFrame

\* FREE: free (data); return NULL;
LabelFree ==
    /\ heap.pc = "FREE"
    /\ heap' = [Free(heap, B_data, "failed") EXCEPT !.result = "NULL"]
    /\ HeapFrame

\* app_free_pg_io is called on the descriptor app_alloc_pg_io returned.
FreePgIoCall ==
    /\ heap.pc = "allocated"
    /\ heap' = [heap EXCEPT !.pc = "free_sec_vec_pl", !.pl = 0]
    /\ HeapFrame

\* for (pl = 0; pl < data->n_pl; pl++) free (data->sec_vec[pl]);
FreeSecVecPl ==
    /\ heap.pc = "free_sec_vec_pl"
    /\ heap' = IF heap.pl < geo.n_of_planes
                 THEN [Free(heap, B_sec_vec_pl(heap.pl), "free_sec_vec_pl")
                          EXCEPT !.pl = heap.pl + 1]
                 ELSE [heap EXCEPT !.pc = "free_rest"]
    /\ HeapFrame

\* free (data->sec_vec); free (data->oob_vec); free (data->pl_vec);
\* free (data->buf); free (data);
FreeRest ==
    /\ heap.pc = "free_rest"
    /\ heap' = Free(Free(Free(Free(Free(heap, B_sec_vec, "free_rest"),
                                   B_oob_vec, "free_rest"),
                              B_pl_vec, "free_rest"),
                         B_buf, "free_rest"),
                    B_data, "freed")
    /\ HeapFrame

HeapNext ==
    \/ AllocData \/ AllocBuf \/ AllocPlVec \/ AllocOobVec \/ AllocSecVec
    \/ AllocSecVecPl
    \/ LabelFreeSec \/ LabelFreeOob \/ LabelFreeVec \/ LabelFreeBuf \/ LabelFree
    \/ FreePgIoCall \/ FreeSecVecPl \/ FreeRest

SpecAlloc == HeapInit /\ [][HeapNext]_vars

(***************************************************************************)
(* app_init_fn, app_exit_fn, app_global_init and app_global_exit, one step *)
(* per collaborator call.                                                  *)
(*   glob.pc     "idle" between calls, else the statement the call is at   *)
(*   glob.gl_fn  the flag set by app_init_fn                               *)
(*   glob.up     the components whose init succeeded and that have not     *)
(*               been torn down since                                      *)
(*   glob.stale  a component was torn down while not in glob.up            *)
(*   glob.init_called  app_init_fn has been called with APP_FN_GLOBAL      *)
(*   glob.last   the last call: kind, fn_id, gl_fn, up and init_called     *)
(*               before it and, once it has returned, ret                  *)
(*   glob.log    the collaborator calls of the last call, in order         *)
(***************************************************************************)
APP_FN_GLOBAL == "APP_FN_GLOBAL"
FnIds == {APP_FN_GLOBAL, "unknown"}

GL_PROV == "gl_prov"
GL_MAP == "gl_map"
LBA_IO == "lba_io"
GC_NS_MUTEX == "gc_ns_mutex"
GC_MAP_MUTEX == "gc_map_mutex"

\* ftl_appnvm_init: gl_fn = 0
GlobInit ==
    /\ geo \in Geometries
    /\ flash = <<>>
    /\ glob = [pc |-> "idle", gl_fn |-> 0, up |-> {}, stale |-> FALSE, calls |-> 0,
               init_called |-> FALSE,
               last |-> [kind |-> "none", fn_id |-> "none", ret |-> 0, returned |-> TRUE,
                         gl_fn_before |-> 0, up_before |-> {}, called_before |-> FALSE],
               log |-> <<>>]
    /\ PgIoIdle /\ SeqIdle /\ ScanIdle /\ BbtIdle /\ HeapIdle /\ ChanIdle

GlobFrame == UNCHANGED <<geo, flash, pgio, seq, scan, bbt, heap, chan>>

\* c.init_fn () or pthread_mutex_init: on success the call goes on at next,
\* on failure at fail.
InitStep(g, c, ok, next, fail) ==
    [g EXCEPT !.log = Append(g.log, [op |-> "init", c |-> c, ok |-> ok]),
              !.up = IF ok THEN g.up \cup {c} ELSE g.up,
              !.pc = IF ok THEN next ELSE fail]

\* c.exit_fn () or pthread_mutex_destroy, then on to next
ExitStep(g, c, next) ==
    [g EXCEPT !.log = Append(g.log, [op |-> "exit", c |-> c, ok |-> TRUE]),
              !.up = g.up \ {c},
              !.stale = g.stale \/ c \notin g.up,
              !.pc = next]

Return(g, ret) == [g EXCEPT !.pc = "idle", !.last.ret = ret, !.last.returned = TRUE]

\* app_init_fn: case APP_FN_GLOBAL: gl_fn = 1; return app_global_init ();
\*              default: return -1;
InitFnCall ==
    /\ glob.pc = "idle" /\ glob.calls < MaxGlobCalls
    /\ \E fn_id \in FnIds :
         LET g1 == [glob EXCEPT !.calls = glob.calls + 1, !.log = <<>>,
                       !.last = [kind |-> "init", fn_id |-> fn_id, ret |-> 0,
                                 returned |-> FALSE, gl_fn_before |-> glob.gl_fn,
                                 up_before |-> glob.up,
                                 called_before |-> glob.init_called]]
         IN  glob' = IF fn_id = APP_FN_GLOBAL
                       THEN [g1 EXCEPT !.gl_fn = 1, !.init_called = TRUE, !.pc = "gl_prov"]
                       ELSE Return(g1, -1)
    /\ GlobFrame

\* if (appnvm()->gl_prov.init_fn ()) return -1;
GlProvInit ==
    /\ glob.pc = "gl_prov"
    /\ \E ok \in BOOLEAN :
         LET g1 == InitStep(glob, GL_PROV, ok, "gl_map", "idle")
         IN  glob' = IF ok THEN g1 ELSE Return(g1, -1)
    /\ GlobFrame

\* if (appnvm()->gl_map.init_fn ()) goto EXIT_GL_PROV;
GlMapInit ==
    /\ glob.pc = "gl_map"
    /\ \E ok \in BOOLEAN : glob' = InitStep(glob, GL_MAP, ok, "lba_io", "EXIT_GL_PROV")
    /\ GlobFrame

\* A start-up that on a failed lba_io init also calls lba_io's exit.
LbaIoInit_exitself ==
    /\ glob.pc = "lba_io"
    /\ \E ok \in BOOLEAN : glob' = InitStep(glob, LBA_IO, ok, "gc_ns_mutex", "EXIT_LBA_IO")
    /\ GlobFrame

\* if (appnvm()->lba_io.init_fn ()) goto EXIT_GL_MAP;
LbaIoInit ==
    /\ glob.pc = "lba_io"
    /\ \E ok \in BOOLEAN : glob' = InitStep(glob, LBA_IO, ok, "gc_ns_mutex", "EXIT_GL_MAP")
    /\ GlobFrame

\* if (pthread_mutex_init (&gc_ns_mutex, NULL)) goto EXIT_LBA_IO;
NsMutexInit ==
    /\ glob.pc = "gc_ns_mutex"
    /\ \E ok \in BOOLEAN :
         glob' = InitStep(glob, GC_NS_MUTEX, ok, "gc_map_mutex", "EXIT_LBA_IO")
    /\ GlobFrame

\* if (pthread_mutex_init (&gc_map_mutex, NULL)) goto NS_MUTEX;  return 0;
MapMutexInit ==
    /\ glob.pc = "gc_map_mutex"
    /\ \E ok \in BOOLEAN :
         LET g1 == InitStep(glob, GC_MAP_MUTEX, ok, "idle", "NS_MUTEX")
         IN  glob' = IF ok THEN Return(g1, 0) ELSE g1
    /\ GlobFrame

\* NS_MUTEX: pthread_mutex_destroy (&gc_ns_mutex);
LabelNsMutex ==
    /\ glob.pc = "NS_MUTEX"
    /\ glob' = ExitStep(glob, GC_NS_MUTEX, "EXIT_LBA_IO")
    /\ GlobFrame

\* EXIT_LBA_IO: appnvm()->lba_io.exit_fn ();
LabelExitLbaIo ==
    /\ glob.pc = "EXIT_LBA_IO"
    /\ glob' = ExitStep(glob, LBA_IO, "EXIT_GL_MAP")
    /\ GlobFrame

\* EXIT_GL_MAP: appnvm()->gl_map.exit_fn ();
LabelExitGlMap ==
    /\ glob.pc = "EXIT_GL_MAP"
    /\ glob' = ExitStep(glob, GL_MAP, "EXIT_GL_PROV")
    /\ GlobFrame

\* EXIT_GL_PROV: appnvm()->gl_prov.exit_fn (); return -1;
LabelExitGlProv ==
    /\ glob.pc = "EXIT_GL_PROV"
    /\ glob' = Return(ExitStep(glob, GL_PROV, "idle"), -1)
    /\ GlobFrame

\* An exit by id that does not look at gl_fn.
ExitFnCall_unguarded ==
    /\ glob.pc = "idle" /\ glob.calls < MaxGlobCalls
    /\ \E fn_id \in FnIds :
         LET g1 == [glob EXCEPT !.calls = glob.calls + 1, !.log = <<>>,
                       !.last = [kind |-> "exit", fn_id |-> fn_id, ret |-> 0,
                                 returned |-> FALSE, gl_fn_before |-> glob.gl_fn,
                                 up_before |-> glob.up,
                                 called_before |-> glob.init_called]]
         IN  glob' = IF fn_id = APP_FN_GLOBAL
                       THEN [g1 EXCEPT !.pc = "x_gc_map_mutex"]
                       ELSE Return(g1, 0)
    /\ GlobFrame

\* app_exit_fn: case APP_FN_GLOBAL: return (gl_fn) ? app_global_exit () : 0;
ExitFnCall ==
    /\ glob.pc = "idle" /\ glob.calls < MaxGlobCalls
    /\ \E fn_id \in FnIds :
         LET g1 == [glob EXCEPT !.calls = glob.calls + 1, !.log = <<>>,
                       !.last = [kind |-> "exit", fn_id |-> fn_id, ret |-> 0,
                                 returned |-> FALSE, gl_fn_before |-> glob.gl_fn,
                                 up_before |-> glob.up,
                                 called_before |-> glob.init_called]]
         IN  glob' = IF fn_id = APP_FN_GLOBAL /\ glob.gl_fn # 0
                       THEN [g1 EXCEPT !.pc = "x_gc_map_mutex"]
                       ELSE Return(g1, 0)
    /\ GlobFrame

\* app_global_exit: pthread_mutex_destroy (&gc_map_mutex);
GlobalExitMapMutex ==
    /\ glob.pc = "x_gc_map_mutex"
    /\ glob' = ExitStep(glob, GC_MAP_MUTEX, "x_gc_ns_mutex")
    /\ GlobFrame

\* pthread_mutex_destroy (&gc_ns_mutex);
GlobalExitNsMutex ==
    /\ glob.pc = "x_gc_ns_mutex"
    /\ glob' = ExitStep(glob, GC_NS_MUTEX, "x_lba_io")
    /\ GlobFrame

\* appnvm()->lba_io.exit_fn ();
GlobalExitLbaIo ==
    /\ glob.pc = "x_lba_io"
    /\ glob' = ExitStep(glob, LBA_IO, "x_gl_map")
    /\ GlobFrame

\* appnvm()->gl_map.exit_fn ();
GlobalExitGlMap ==
    /\ glob.pc = "x_gl_map"
    /\ glob' = ExitStep(glob, GL_MAP, "x_gl_prov")
    /\ GlobFrame

\* appnvm()->gl_prov.exit_fn ();
GlobalExitGlProv ==
    /\ glob.pc = "x_gl_prov"
    /\ glob' = Return(ExitStep(glob, GL_PROV, "idle"), 0)
    /\ GlobFrame

GlobNext ==
    \/ InitFnCall \/ GlProvInit \/ GlMapInit \/ LbaIoInit \/ NsMutexInit \/ MapMutexInit
    \/ LabelNsMutex \/ LabelExitLbaIo \/ LabelExitGlMap \/ LabelExitGlProv
    \/ ExitFnCall
    \/ GlobalExitMapMutex \/ GlobalExitNsMutex \/ GlobalExitLbaIo
    \/ GlobalExitGlMap \/ GlobalExitGlProv

SpecGlobal == GlobInit /\ [][GlobNext]_vars

(***************************************************************************)
(* app_init_channel and app_exit.                                          *)
(*   chan.pc       "idle" between calls; "poll" and "destroy" inside the   *)
(*                 loop of app_exit                                        *)
(*   chan.app_nch  the count of active channels                            *)
(*   chan.ch       the channels of the channel-management collaborator by  *)
(*                 id: slot in use, busy counter, initialised locks, the   *)
(*                 active and need-gc flags, and counts of lock            *)
(*                 initialisations, lock destroys and exit_fn calls        *)
(*   chan.i, chan.nch, chan.nth, chan.retry   the locals of app_exit       *)
(*   chan.polls    reads of the busy counter for channel i so far          *)
(*   chan.early    a channel was torn down although the last poll read a   *)
(*                 nonzero count and fewer than 200 retries had been made  *)
(*   chan.forced   the channels torn down with a nonzero count             *)
(*   chan.last     the last call or event, with the state before it        *)
(***************************************************************************)
\* while (nth && retry < 200)
DrainRetries == 200

BUSY_SPIN == "busy_spin"
ACTIVE_SPIN == "active_spin"
NEED_GC_SPIN == "need_gc_spin"
ChLocks == {BUSY_SPIN, ACTIVE_SPIN, NEED_GC_SPIN}

ChIds == 0..(MaxCh - 1)
\* Values of the busy-thread counter: no thread, one thread.
BusyCounts == {0, 1}

\* A slot of the collaborator that holds no channel.
NoCh == [slot |-> FALSE, busy |-> 0, locks |-> {}, active |-> FALSE, need_gc |-> FALSE,
         lock_inits |-> 0, destroys |-> 0, bad_destroy |-> FALSE, exits |-> 0]

\* appnvm()->channels.init_fn (ch, id): on success slot id holds a channel
\* whose counter and flags are whatever the collaborator left there.
channels_init_fn(c, busy, active, need_gc) ==
    [c EXCEPT !.slot = TRUE, !.busy = busy, !.active = active, !.need_gc = need_gc]

\* appnvm()->channels.exit_fn (lch): the slot is given back.
channels_exit_fn(c) == [c EXCEPT !.slot = FALSE, !.exits = c.exits + 1]

\* A start-up that leaves the need-gc flag as the collaborator left it.
init_channel_flags_keepgc(c) ==
    [c EXCEPT !.busy = 0, !.locks = ChLocks, !.lock_inits = c.lock_inits + 1,
              !.active = TRUE]

\* busy.counter = 0; pthread_spin_init x 3; appnvm_ch_active_set;
\* appnvm_ch_need_gc_unset
init_channel_flags(c) ==
    [c EXCEPT !.busy = 0, !.locks = ChLocks, !.lock_inits = c.lock_inits + 1,
              !.active = TRUE, !.need_gc = FALSE]

\* pthread_spin_destroy x 3
destroy_locks(c) ==
    [c EXCEPT !.locks = {}, !.destroys = c.destroys + 3,
              !.bad_destroy = c.bad_destroy \/ c.locks # ChLocks]

\* A drain that goes on to the teardown after its first poll.
drain_again_nowait(nth, retry) == FALSE

\* while (nth && retry < 200)
drain_again(nth, retry) == nth # 0 /\ retry < DrainRetries

NoChanCall == [fn |-> "none", ret |-> 0, nch_before |-> 0,
               ch_before |-> [c \in ChIds |-> NoCh]]

ChanInit ==
    /\ geo = [n_of_planes |-> 1]
    /\ flash = <<>>
    /\ chan = [pc |-> "idle", app_nch |-> 0, ch |-> [c \in ChIds |-> NoCh],
               calls |-> 0, i |-> 0, nch |-> 0, nth |-> 0, retry |-> 0, polls |-> 0,
               early |-> FALSE, forced |-> {}, last |-> NoChanCall]
    /\ PgIoIdle /\ SeqIdle /\ ScanIdle /\ BbtIdle /\ HeapIdle /\ GlobIdle

ChanFrame == UNCHANGED <<geo, flash, pgio, seq, scan, bbt, heap, glob>>

\* app_init_channel.  channels.init_fn fails when no slot is left and may
\* fail before that.
InitChannel ==
    /\ chan.pc = "idle" /\ chan.calls < MaxChanCalls
    /\ \E ret \in {0, -1}, busy \in BusyCounts, active \in BOOLEAN, need_gc \in BOOLEAN :
         LET id == chan.app_nch
             lst == [fn |-> "init", ret |-> ret, nch_before |-> chan.app_nch,
                     ch_before |-> chan.ch]
         IN  /\ id >= MaxCh => ret # 0
             /\ ret # 0 => (busy = 0 /\ ~active /\ ~need_gc)
             /\ chan' = IF ret # 0
                          THEN [chan EXCEPT !.calls = chan.calls + 1, !.last = lst]
                          ELSE [chan EXCEPT
                                  !.calls = chan.calls + 1, !.last = lst,
                                  !.ch[id] = init_channel_flags(
                                                channels_init_fn(chan.ch[id], busy,
                                                                 active, need_gc)),
                                  !.app_nch = chan.app_nch + 1]
    /\ ChanFrame

\* Worker threads enter and leave an active channel: its busy counter
\* changes.  Inside app_exit only the counter of the channel being polled
\* is read, so only its changes are followed.
ChThreads ==
    /\ \E c \in ChIds, n \in BusyCounts :
         /\ IF chan.pc = "idle" THEN c < chan.app_nch ELSE c = chan.i /\ c < chan.nch
         /\ chan.ch[c].slot
         /\ chan.ch[c].busy # n
         /\ chan' = [chan EXCEPT !.ch[c].busy = n,
                                 !.last.fn = IF chan.pc = "idle" THEN "threads"
                                             ELSE chan.last.fn]
    /\ ChanFrame

\* app_exit: nch = app_nch; channels.get_list_fn (lch, nch); i = 0; retry = 0
ExitCall ==
    /\ chan.pc = "idle" /\ chan.calls < MaxChanCalls
    /\ chan' = [chan EXCEPT
                  !.calls = chan.calls + 1,
                  !.nch = chan.app_nch, !.i = 0, !.retry = 0, !.polls = 0, !.nth = 0,
                  !.forced = {},
                  !.pc = IF chan.app_nch > 0 THEN "poll" ELSE "idle",
                  !.last = [fn |-> "exit", ret |-> 0, nch_before |-> chan.app_nch,
                            ch_before |-> chan.ch]]
    /\ ChanFrame

\* nth = appnvm_ch_nthreads (lch[i]); if (nth) { usleep (5000); retry++; }
ExitPoll ==
    /\ chan.pc = "poll"
    /\ LET nth == chan.ch[chan.i].busy
           retry == IF nth # 0 THEN chan.retry + 1 ELSE chan.retry
       IN  chan' = [chan EXCEPT
                      !.nth = nth, !.retry = retry, !.polls = chan.polls + 1,
                      !.pc = IF drain_again(nth, retry) THEN "poll" ELSE "destroy"]
    /\ ChanFrame

\* pthread_spin_destroy x 3; channels.exit_fn (lch[i]); app_nch--; i++
ExitDestroy ==
    /\ chan.pc = "destroy"
    /\ LET i == chan.i
       IN  chan' = [chan EXCEPT
                      !.ch[i] = channels_exit_fn(destroy_locks(chan.ch[i])),
                      !.app_nch = chan.app_nch - 1,
                      !.early = chan.early
                                  \/ (chan.nth # 0 /\ chan.retry < DrainRetries),
                      !.forced = IF chan.nth # 0 THEN chan.forced \cup {i}
                                 ELSE chan.forced,
                      !.i = i + 1, !.retry = 0, !.polls = 0,
                      !.pc = IF i + 1 < chan.nch THEN "poll" ELSE "idle"]
    /\ ChanFrame

ChanNext == InitChannel \/ ChThreads \/ ExitCall \/ ExitPoll \/ ExitDestroy

SpecChan == ChanInit /\ [][ChanNext]_vars

\* The thread inside app_exit keeps running: usleep returns.
SpecChanLive == SpecChan /\ WF_vars(ExitPoll) /\ WF_vars(ExitDestroy)

(***************************************************************************)
(* C1: app_pg_io submits commands for planes 0, 1, ... in ascending order, *)
(* each with the requested block, page and lun and with that plane's       *)
(* buffer (none for erase).  When every command succeeds it has submitted  *)
(* exactly n_of_planes commands and returns 0; when the command for plane  *)
(* p fails it returns that result and has submitted nothing after p.       *)
(***************************************************************************)
C1_PlaneIteration ==
    pgio.fn = "app_pg_io" =>
        LET n == geo.n_of_planes
            c == pgio.cmds
            out == pgio.out
        IN  /\ Len(c) <= n
            /\ \A i \in 1..Len(c) :
                  /\ c[i].pl = i - 1
                  /\ c[i].blk = pgio.req.blk
                  /\ c[i].pg = pgio.req.pg
                  /\ c[i].lun = pgio.req.lun
                  /\ c[i].buf = IF pgio.req.cmdtype = MMGR_ERASE_BLK THEN NoBuf
                                ELSE (i - 1) * PlaneBytes
            /\ (out.malloc_ok /\ out.failAt >= n) => (Len(c) = n /\ pgio.ret = 0)
            /\ (out.malloc_ok /\ out.failAt < n) =>
                  (pgio.ret = out.err /\ pgio.ret # 0 /\ Len(c) = out.failAt + 1)

\* A four-plane write whose second plane command fails.
C1_Witness ==
    /\ pgio.fn = "app_pg_io"
    /\ geo.n_of_planes = 4
    /\ pgio.req.cmdtype = MMGR_WRITE_PG
    /\ pgio.out.malloc_ok /\ pgio.out.failAt = 1
    /\ Len(pgio.cmds) = 2
    /\ pgio.ret # 0

(***************************************************************************)
(* Helpers of the transfer claims.                                         *)
(***************************************************************************)
Min(a, b) == IF a <= b THEN a ELSE b
Planes == 0..(geo.n_of_planes - 1)
\* The page count covers the table.
PagesCover == seq.par.pgs * seq.par.ent_per_pg >= seq.par.ent_cnt
\* The media address page i, plane p of the running transfer goes to.
SeqAddr(i, p) ==
    <<ch_mmgr_id,
      IF seq.par.reserved = APP_IO_RESERVED THEN 0 ELSE seq.par.ppa.lun,
      seq.par.ppa.blk, seq.par.ppa.pg + i, p>>

(***************************************************************************)
(* C2: round trip.  A table written to flash by a call that returned 0     *)
(* and read back by a call with the same arguments that returned 0 is      *)
(* reproduced exactly, for every ent_per_pg and entry_sz and for 1, 2 and  *)
(* 4 planes (page count covering the table).                               *)
(***************************************************************************)
C2_RoundTrip ==
    ( /\ seq.pc = "done" /\ seq.call = 2
      /\ seq.direction = APP_TRANS_FROM_NVM
      /\ seq.stored /\ seq.ret = 0
      /\ geo.n_of_planes \in {1, 2, 4}
      /\ seq.par.ent_per_pg >= geo.n_of_planes
      /\ PagesCover )
    => seq.user_buf = TablePattern(seq.par.ent_cnt * seq.par.entry_sz)

(***************************************************************************)
(* C3: layout.  After a to-flash call that returned 0, the copy for page   *)
(* i, plane p starts at entry i*ent_per_pg + p*(ent_per_pg/n_pl) and       *)
(* moves min(remaining, ent_per_pg/n_pl) entries, which are what the media *)
(* holds for that page and plane; every entry below ent_cnt is copied by   *)
(* exactly one plane copy.                                                 *)
(***************************************************************************)
C3_Layout ==
    ( /\ seq.pc = "done" /\ seq.direction = APP_TRANS_TO_NVM /\ seq.ret = 0
      /\ seq.par.ent_per_pg >= geo.n_of_planes
      /\ PagesCover )
    => LET par == seq.par
           per == par.ent_per_pg \div geo.n_of_planes
           Covers(c, e) == /\ c.uoff <= e * par.entry_sz
                           /\ (e + 1) * par.entry_sz <= c.uoff + c.sz
       IN  /\ \A k \in 1..Len(seq.copies) :
                LET c == seq.copies[k]
                IN  /\ c.uoff = (c.i * par.ent_per_pg + c.pl * per) * par.entry_sz
                    /\ c.sz = Min(c.left, per) * par.entry_sz
                    /\ \A b \in 0..(c.sz - 1) :
                         c.uoff + b < par.ent_cnt * par.entry_sz =>
                           FlashRead(flash, SeqAddr(c.i, c.pl))[b] = seq.user_buf[c.uoff + b]
           /\ \A e \in 0..(par.ent_cnt - 1) :
                Cardinality({k \in 1..Len(seq.copies) : Covers(seq.copies[k], e)}) = 1

(***************************************************************************)
(* C4 as stated: a page is written only when every plane buffer has been   *)
(* populated for that page.                                                *)
(***************************************************************************)
C4_NoPartialPageWrite ==
    (seq.pc = "write" /\ seq.par.ent_cnt >= 1) => seq.filled = Planes

(***************************************************************************)
(* C4, amended: the page I/O calls of a transfer go to pages start_pg,     *)
(* start_pg + 1, ... in that order, one call per page.  To flash, the      *)
(* write of a page is issued after the copy loop of that page has ended:   *)
(* the planes 0..m have received that page's entries, where m is the last  *)
(* plane or the plane at which ent_left reached 0, and the planes after m  *)
(* are written as they were.  From flash, a plane buffer is copied out     *)
(* only after the read of that page has returned 0.                        *)
(***************************************************************************)
C4_WriteAfterCopyLoop ==
    /\ \A k \in 1..Len(seq.iolog) :
         /\ seq.iolog[k].i = k - 1
         /\ \A j \in 1..Len(seq.iolog[k].cmds) :
              seq.iolog[k].cmds[j].pg = seq.par.ppa.pg + (k - 1)
    /\ seq.pc = "write" =>
         /\ seq.direction = APP_TRANS_TO_NVM
         /\ Len(seq.iolog) = seq.i
         /\ \E m \in Planes :
              /\ seq.filled = 0..m
              /\ m = geo.n_of_planes - 1 \/ seq.ent_left = 0
         /\ \A k \in 1..Len(seq.copies) :
              LET c == seq.copies[k]
              IN  c.i = seq.i =>
                    \A b \in 0..(c.sz - 1) :
                       c.uoff + b < seq.par.ent_cnt * seq.par.entry_sz =>
                         seq.buf[pl_vec(geo.n_of_planes, c.pl) + b] = seq.user_buf[c.uoff + b]
    /\ (seq.pc = "copy" /\ seq.direction = APP_TRANS_FROM_NVM) =>
         /\ Len(seq.iolog) = seq.i + 1
         /\ seq.iolog[seq.i + 1].cmdtype = MMGR_READ_PG
         /\ seq.iolog[seq.i + 1].ret = 0
    /\ (seq.pc = "copy" /\ seq.direction = APP_TRANS_TO_NVM) =>
         Len(seq.iolog) = seq.i

\* The second page of a two-plane table is written with plane 0 holding its
\* last entry and plane 1 still holding an entry of the first page.
C4_Witness ==
    /\ seq.pc = "write" /\ seq.i = 1
    /\ geo.n_of_planes = 2
    /\ seq.par.ent_per_pg = 2 /\ seq.par.ent_cnt = 3 /\ seq.par.entry_sz = 1
    /\ seq.filled = {0} /\ seq.ent_left = 0
    /\ seq.buf[pl_vec(2, 0)] = 3
    /\ seq.buf[pl_vec(2, 1)] = 2

(***************************************************************************)
(* C5: the first failing page I/O ends the transfer.  It returns -1, no    *)
(* page I/O follows the failing one and no page gets a second I/O; from    *)
(* flash, the table bytes of the failed page and of the later pages are    *)
(* as they were before the call.                                           *)
(***************************************************************************)
C5_FailsImmediately ==
    /\ \A k \in 1..Len(seq.iolog) :
         /\ seq.iolog[k].i = k - 1
         /\ seq.iolog[k].ret # 0 =>
              /\ k = Len(seq.iolog)
              /\ seq.pc = "done" /\ seq.ret = -1
              /\ seq.i = k - 1
              /\ seq.direction = APP_TRANS_FROM_NVM =>
                   \A b \in DOMAIN seq.user_buf :
                      b >= pg_ent_sz(seq.par) * (k - 1) => seq.user_buf[b] = 0
    /\ (seq.pc = "done" /\ seq.ret # 0) =>
         /\ seq.ret = -1
         /\ Len(seq.iolog) >= 1
         /\ seq.iolog[Len(seq.iolog)].ret # 0

\* The read of the second page fails after the first page was copied out.
C5_Witness ==
    /\ seq.pc = "done" /\ seq.ret = -1
    /\ seq.direction = APP_TRANS_FROM_NVM /\ seq.stored
    /\ Len(seq.iolog) = 2
    /\ seq.iolog[1].ret = 0 /\ seq.iolog[2].ret # 0
    /\ seq.par.ent_cnt * seq.par.entry_sz > pg_ent_sz(seq.par)
    /\ seq.user_buf[0] = 1
    /\ seq.user_buf[pg_ent_sz(seq.par)] = 0

(***************************************************************************)
(* Helpers of the scanner claims.                                          *)
(***************************************************************************)
\* The scan is over and no read failed (the scratch buffer was there).
ScanDoneNoFailure ==
    /\ scan.pc = "done"
    /\ Len(scan.reads) >= 1
    /\ \A k \in 1..Len(scan.reads) : scan.reads[k].ret = 0
\* Pages 0, stride, ..., k*stride are committed and page (k+1)*stride is
\* not, or lies beyond the block.
StampedUpTo(k) ==
    /\ k * scan.par.offset < geo.pg_per_blk
    /\ \A j \in 0..k : (j * scan.par.offset) \in scan.stamped
    /\ ((k + 1) * scan.par.offset) \notin scan.stamped
\* The first multiple of the stride, at least the stride, from which the
\* loop condition pg < pg_per_blk - offset is false.
ScanLimit ==
    LET st == scan.par.offset
    IN  st * (CHOOSE m \in 1..(MaxPpb + 1) :
                /\ m * st >= geo.pg_per_blk - st
                /\ \A n \in 1..(m - 1) : n * st < geo.pg_per_blk - st)

C7_FlushOnChange ==
    /\ bbt.flushes = bbt.changes
    /\ (bbt.last.fn = "set" /\ bbt.last.ret = 0) =>
         LET c == bbt.last
             at == c.lun * geo.blk_per_lun * geo.n_of_planes
                     + c.blk * geo.n_of_planes + c.pl
         IN  /\ c.tbl_before[at] = c.value => c.flushed = 0
             /\ c.tbl_before[at] # c.value => c.flushed = 1

\* A second set of the value the first one stored: no flush.
C7_Witness ==
    /\ bbt.calls = 2 /\ bbt.flushes = 1
    /\ bbt.last.fn = "set" /\ bbt.last.ret = 0
    /\ bbt.last.value # 0
    /\ bbt.last.flushed = 0
    /\ bbt.tbl = bbt.last.tbl_before

(***************************************************************************)
(* C8: a get whose length differs from blk_per_lun * n_of_planes returns   *)
(* -1 and leaves the caller's buffer and the table as they were; a set     *)
(* with block * n_of_planes + plane >= blk_per_lun * n_of_planes returns   *)
(* -1, leaves the table as it was and does not flush.                      *)
(***************************************************************************)
C8_InvalidRejected ==
    LET c == bbt.last
        total == geo.blk_per_lun * geo.n_of_planes
    IN  /\ (c.fn = "get" /\ c.nb # total) =>
             /\ c.ret = -1
             /\ c.out = c.out_before
             /\ bbt.tbl = c.tbl_before
        /\ (c.fn = "set" /\ c.blk * geo.n_of_planes + c.pl >= total) =>
             /\ c.ret = -1
             /\ bbt.tbl = c.tbl_before
             /\ c.flushed = 0

\* A get of a length one short of the lun's slice, after a set has stored a
\* value in that slice.
C8_Witness ==
    /\ bbt.last.fn = "get" /\ bbt.last.ret = -1
    /\ bbt.last.nb = geo.blk_per_lun * geo.n_of_planes - 1
    /\ bbt.last.nb >= 1
    /\ bbt.tbl[bbt_l_addr(geo, bbt.last.lun)] # 0
    /\ bbt.last.out = [i \in 0..(bbt.last.nb - 1) |-> FreshByte]

(***************************************************************************)
(* C9: when an allocation of app_alloc_pg_io fails, the call returns NULL  *)
(* with every block it had allocated freed, in the reverse of the order    *)
(* they were allocated, none freed twice; after app_alloc_pg_io and one    *)
(* app_free_pg_io no block is live.                                        *)
(***************************************************************************)
Reverse(q) == [k \in 1..Len(q) |-> q[Len(q) + 1 - k]]

C9_NoLeak ==
    /\ ~heap.bad_free
    /\ heap.pc = "failed" =>
         /\ heap.result = "NULL"
         /\ heap.live = {}
         /\ heap.rel = Reverse(heap.acq)
    /\ heap.pc = "allocated" =>
         /\ heap.result = "data"
         /\ Len(heap.acq) = 5 + geo.n_of_planes
         /\ heap.live = {heap.acq[k] : k \in 1..Len(heap.acq)}
         /\ heap.rel = <<>>
    /\ heap.pc = "freed" =>
         /\ heap.live = {}
         /\ Len(heap.rel) = Len(heap.acq)
         /\ {heap.rel[k] : k \in 1..Len(heap.rel)} = {heap.acq[k] : k \in 1..Len(heap.acq)}

\* The allocation of the second per-plane sector array has failed and the
\* call has returned.
C9_Witness ==
    /\ heap.pc = "failed"
    /\ Len(heap.acq) = 6
    /\ heap.acq[6] = B_sec_vec_pl(0)
    /\ heap.rel[1] = B_sec_vec_pl(0)
    /\ heap.rel[6] = B_data
    /\ heap.live = {}

(***************************************************************************)
(* C10: app_global_init starts global provisioning, global mapping,        *)
(* logical-address I/O, the GC-namespace mutex and the GC-map mutex in     *)
(* that order.  When the step at position j fails it returns -1 after      *)
(* tearing down the components at positions j-1, ..., 1 in that order; it  *)
(* neither tears down the failed component nor starts a later one.  When   *)
(* no step fails it returns 0 and tears nothing down.                      *)
(***************************************************************************)
InitOrder == <<GL_PROV, GL_MAP, LBA_IO, GC_NS_MUTEX, GC_MAP_MUTEX>>

\* The collaborator calls of a start-up whose step j fails (0: none does).
InitLog(j) ==
    IF j = 0 THEN [k \in 1..5 |-> [op |-> "init", c |-> InitOrder[k], ok |-> TRUE]]
    ELSE [k \in 1..(2 * j - 1) |->
            IF k < j THEN [op |-> "init", c |-> InitOrder[k], ok |-> TRUE]
            ELSE IF k = j THEN [op |-> "init", c |-> InitOrder[j], ok |-> FALSE]
            ELSE [op |-> "exit", c |-> InitOrder[2 * j - k], ok |-> TRUE]]

C10_InitOrderAndUnwind ==
    (glob.last.kind = "init" /\ glob.last.fn_id = APP_FN_GLOBAL) =>
        /\ \E j \in 0..5 :
             /\ Len(glob.log) <= Len(InitLog(j))
             /\ \A k \in 1..Len(glob.log) : glob.log[k] = InitLog(j)[k]
        /\ glob.last.returned =>
             \E j \in 0..5 :
                /\ glob.log = InitLog(j)
                /\ glob.last.ret = IF j = 0 THEN 0 ELSE -1

\* The GC-map mutex could not be initialised: the four components started
\* before it have been torn down, the GC-namespace mutex first.
C10_Witness ==
    /\ glob.last.kind = "init" /\ glob.last.returned /\ glob.last.ret = -1
    /\ Len(glob.log) = 9
    /\ glob.log[5] = [op |-> "init", c |-> GC_MAP_MUTEX, ok |-> FALSE]
    /\ glob.log[6] = [op |-> "exit", c |-> GC_NS_MUTEX, ok |-> TRUE]
    /\ glob.log[9] = [op |-> "exit", c |-> GL_PROV, ok |-> TRUE]

(***************************************************************************)
(* C11: when channels.init_fn fails, app_init_channel returns its result   *)
(* and leaves every channel and app_nch as they were.  When it succeeds,   *)
(* the channel with the id app_nch had before the call has busy counter 0, *)
(* its three locks initialised once more, the active flag set and the      *)
(* need-gc flag clear; app_nch is one more and the other channels are as   *)
(* they were.                                                              *)
(***************************************************************************)
C11_InitChannel ==
    chan.last.fn = "init" =>
        LET b == chan.last
            id == b.nch_before
        IN  /\ b.ret # 0 => (chan.ch = b.ch_before /\ chan.app_nch = b.nch_before)
            /\ b.ret = 0 =>
                 /\ id \in ChIds
                 /\ chan.ch[id].slot
                 /\ chan.ch[id].busy = 0
                 /\ chan.ch[id].locks = ChLocks
                 /\ chan.ch[id].lock_inits = b.ch_before[id].lock_inits + 1
                 /\ chan.ch[id].active
                 /\ ~chan.ch[id].need_gc
                 /\ chan.app_nch = b.nch_before + 1
                 /\ \A c \in ChIds \ {id} : chan.ch[c] = b.ch_before[c]

\* The second channel has been started while the first one has a busy
\* thread.
C11_Witness ==
    /\ chan.last.fn = "init" /\ chan.last.ret = 0
    /\ chan.last.nch_before = 1 /\ chan.app_nch = 2
    /\ chan.ch[0].busy = 1
    /\ chan.ch[1].locks = ChLocks /\ chan.ch[1].active

(***************************************************************************)
(* C12: app_exit reads the busy counter of a channel at most 200 times,    *)
(* tears the channel down only after a read of 0 or after 200 retries,     *)
(* and always returns; when it has returned, every channel that was active *)
(* has had its three locks destroyed once and its exit_fn called once, the *)
(* other channels are as they were, and app_nch is 0.                      *)
(***************************************************************************)
DrainInv ==
    /\ chan.retry <= DrainRetries
    /\ chan.polls <= DrainRetries
    /\ ~chan.early
    /\ chan.pc = "destroy" => (chan.nth = 0 \/ chan.retry = DrainRetries)
    /\ (chan.last.fn = "exit" /\ chan.pc = "idle") =>
         /\ chan.app_nch = 0
         /\ \A c \in ChIds :
              IF c < chan.last.nch_before
                THEN /\ chan.ch[c].locks = {}
                     /\ ~chan.ch[c].bad_destroy
                     /\ chan.ch[c].destroys = chan.last.ch_before[c].destroys + 3
                     /\ chan.ch[c].exits = chan.last.ch_before[c].exits + 1
                ELSE chan.ch[c] = chan.last.ch_before[c]

C12_BoundedDrain ==
    /\ []DrainInv
    /\ (chan.pc # "idle") ~> (chan.pc = "idle")

\* app_exit has returned after tearing down two channels, one of them with
\* a busy thread left after 200 retries and one after a read of 0.
C12_Witness ==
    /\ chan.last.fn = "exit" /\ chan.pc = "idle"
    /\ chan.last.nch_before = 2
    /\ Cardinality(chan.forced) = 1
    /\ chan.app_nch = 0

(***************************************************************************)
(* C13: every command app_io_rsv_blk submits has lun 0, the given block    *)
(* and page, the channel's media-manager id and that plane's buffer (none  *)
(* for erase); the planes are 0, 1, ... in ascending order and the loop    *)
(* stops at the first failing plane, whose result is returned, as in       *)
(* app_pg_io.                                                              *)
(***************************************************************************)
C13_ReservedLunZero ==
    pgio.fn = "app_io_rsv_blk" =>
        LET n == geo.n_of_planes
            c == pgio.cmds
            out == pgio.out
        IN  /\ Len(c) <= n
            /\ \A i \in 1..Len(c) :
                  /\ c[i].lun = 0
                  /\ c[i].pl = i - 1
                  /\ c[i].blk = pgio.req.blk
                  /\ c[i].pg = pgio.req.pg
                  /\ c[i].ch = ch_mmgr_id
                  /\ c[i].buf = IF pgio.req.cmdtype = MMGR_ERASE_BLK THEN NoBuf
                                ELSE (i - 1) * PlaneBytes
            /\ ~out.malloc_ok => (Len(c) = 0 /\ pgio.ret = EMEM)
            /\ (out.malloc_ok /\ out.failAt >= n) => (Len(c) = n /\ pgio.ret = 0)
            /\ (out.malloc_ok /\ out.failAt < n) =>
                  (pgio.ret = out.err /\ pgio.ret # 0 /\ Len(c) = out.failAt + 1)

\* A four-plane read of page 1 of reserved block 1 whose third plane
\* command fails.
C13_Witness ==
    /\ pgio.fn = "app_io_rsv_blk"
    /\ geo.n_of_planes = 4
    /\ pgio.req.cmdtype = MMGR_READ_PG
    /\ pgio.req.blk = 1 /\ pgio.req.pg = 1
    /\ pgio.out.malloc_ok /\ pgio.out.failAt = 2
    /\ Len(pgio.cmds) = 3
    /\ pgio.cmds[3].lun = 0

(***************************************************************************)
(* Helpers of the claims on failing reads.                                 *)
(***************************************************************************)
\* The scan is over and a read failed.
ScanDoneFailure ==
    /\ scan.pc = "done"
    /\ \E k \in 1..Len(scan.reads) : scan.reads[k].ret # 0
\* Only the last read of the scan failed.
FailedReadIsLast ==
    \A k \in 1..Len(scan.reads) : scan.reads[k].ret # 0 => k = Len(scan.reads)

(***************************************************************************)
(* C14 as stated: the scan stops at the first failing read; when the first *)
(* read fails the result is not-found (-1), and when a later read fails    *)
(* after earlier pages matched the stamp, the result is the last page at   *)
(* which the stamp matched, not -1.                                        *)
(***************************************************************************)
C14_LastMatchOnError ==
    ScanDoneFailure =>
        /\ FailedReadIsLast
        /\ Len(scan.reads) = 1 => scan.result = -1
        /\ (Len(scan.reads) > 1 /\ scan.par.offset >= 1) =>
             /\ scan.result = scan.reads[Len(scan.reads) - 1].pg
             /\ scan.result # -1

(***************************************************************************)
(* C14, amended: the scan stops at the first failing read and the result   *)
(* is then -1, whether the failing read is the first one or comes after    *)
(* pages that matched the stamp; every page read before the failing one    *)
(* matched the stamp.                                                      *)
(***************************************************************************)
C14_ErrorIsNotFound ==
    ScanDoneFailure =>
        /\ FailedReadIsLast
        /\ scan.result = -1
        /\ \A k \in 1..(Len(scan.reads) - 1) : scan.reads[k].pg \in scan.stamped

\* Pages 0 and 1 matched the stamp and the read of page 2 failed: the scan
\* with stride 1 returned -1.
C14_Witness ==
    /\ ScanDoneFailure
    /\ scan.par.offset = 1
    /\ Len(scan.reads) = 3
    /\ {0, 1} \subseteq scan.stamped
    /\ scan.reads[3].pg = 2 /\ scan.reads[3].ret # 0
    /\ scan.result = -1

(***************************************************************************)
(* C15: for every stride, 0 and strides beyond pg_per_blk included, and    *)
(* every block content, the scan makes at most pg_per_blk page reads,      *)
(* reads page 0 first, reads only pages below pg_per_blk and returns only  *)
(* page indices below pg_per_blk.                                          *)
(***************************************************************************)
C15_TerminatesInBounds ==
    /\ Len(scan.reads) <= geo.pg_per_blk
    /\ Len(scan.reads) >= 1 => scan.reads[1].pg = 0
    /\ \A k \in 1..Len(scan.reads) : scan.reads[k].pg < geo.pg_per_blk
    /\ (scan.pc = "done" /\ scan.result # -1) => scan.result < geo.pg_per_blk

(***************************************************************************)
(* C16: a set that returns 0 stores the value at the flat index            *)
(* lun * blk_per_lun * n_of_planes + blk * n_of_planes + pl and leaves     *)
(* every other entry of every lun as it was; a get for the same lun right  *)
(* after it returns a slice holding the value at blk * n_of_planes + pl,   *)
(* and a get for another lun returns that lun's slice as it was before     *)
(* the set.                                                                *)
(***************************************************************************)
C16_FlatLayout ==
    LET n == geo.n_of_planes
        slice == geo.blk_per_lun * geo.n_of_planes
        c == bbt.last
        p == bbt.prev
    IN  /\ (c.fn = "set" /\ c.ret = 0) =>
             LET at == c.lun * slice + c.blk * n + c.pl
             IN  /\ bbt.tbl[at] = c.value
                 /\ \A x \in DOMAIN bbt.tbl : x # at => bbt.tbl[x] = c.tbl_before[x]
        /\ (c.fn = "get" /\ c.ret = 0 /\ p.fn = "set") =>
             IF c.lun = p.lun
               THEN c.out[p.blk * n + p.pl] = p.value
               ELSE \A k \in 0..(c.nb - 1) : c.out[k] = p.tbl_before[c.lun * slice + k]

\* A set of the last entry of lun 1 to 1, then a get of the slice of lun 1.
C16_Witness ==
    /\ bbt.last.fn = "get" /\ bbt.last.ret = 0 /\ bbt.last.lun = 1
    /\ bbt.prev.fn = "set" /\ bbt.prev.lun = 1 /\ bbt.prev.value = 1
    /\ geo.n_of_planes = 2 /\ geo.blk_per_lun = 2
    /\ bbt.prev.blk = 1 /\ bbt.prev.pl = 1
    /\ bbt.last.out[3] = 1 /\ bbt.last.out[0] = 0

(***************************************************************************)
(* C17: when a set changes the stored value and bbt.flush_fn fails, the    *)
(* call returns 0, the table holds the new value and flush_fn has been     *)
(* called once in that call.                                               *)
(***************************************************************************)
C17_FlushFailureSwallowed ==
    LET c == bbt.last
        at == c.lun * geo.blk_per_lun * geo.n_of_planes + c.blk * geo.n_of_planes + c.pl
    IN  (c.fn = "set" /\ c.flushed # 0 /\ c.flush_ret # 0) =>
            /\ c.ret = 0
            /\ c.tbl_before[at] # c.value
            /\ bbt.tbl[at] = c.value
            /\ c.flushed = 1
            /\ bbt.last_flush = "fail"

\* A set of an entry from 0 to 1 whose flush failed: the table holds 1,
\* the persisted table still 0.
C17_Witness ==
    /\ bbt.last.fn = "set" /\ bbt.last.ret = 0
    /\ bbt.last.flushed = 1 /\ bbt.last.flush_ret = -1
    /\ bbt.last.value = 1
    /\ bbt.tbl # bbt.persisted

(***************************************************************************)
(* C18: with bbt.flush_fn persisting the whole table when it succeeds and  *)
(* nothing when it fails, the persisted table equals the table in memory   *)
(* whenever the last call of flush_fn succeeded or flush_fn has not been   *)
(* called; a flush that succeeds after failed ones persists the changes    *)
(* they missed.                                                            *)
(***************************************************************************)
C18_PersistedConsistent ==
    /\ bbt.last_flush \in {"none", "ok"} => bbt.persisted = bbt.tbl
    /\ bbt.last_flush = "none" <=> bbt.flushes = 0

\* The flush of a first set failed, the flush of a second set of another
\* entry succeeded: both changes are persisted.
C18_Witness ==
    /\ bbt.calls = 2 /\ bbt.flushes = 2
    /\ bbt.prev.fn = "set" /\ bbt.prev.flush_ret = -1 /\ bbt.prev.value = 1
    /\ bbt.last.fn = "set" /\ bbt.last.flush_ret = 0 /\ bbt.last.value = 1
    /\ bbt.last_flush = "ok"
    /\ Cardinality({x \in DOMAIN bbt.tbl : bbt.tbl[x] = 1}) = 2
    /\ bbt.persisted = bbt.tbl

(***************************************************************************)
(* C19: app_exit_fn with APP_FN_GLOBAL tears nothing down when app_init_fn *)
(* has not been called with APP_FN_GLOBAL; when it has, it destroys the    *)
(* GC-map mutex and the GC-namespace mutex and calls the exit of lba_io,   *)
(* gl_map and gl_prov, in that order, whatever components are started.     *)
(* A call of app_init_fn or app_exit_fn with another id starts and tears   *)
(* down nothing and leaves gl_fn and the components as they were.          *)
(***************************************************************************)
ExitLog ==
    [k \in 1..5 |-> [op |-> "exit", c |-> InitOrder[6 - k], ok |-> TRUE]]

C19_ExitById ==
    LET c == glob.last
    IN  /\ (c.kind = "exit" /\ c.fn_id = APP_FN_GLOBAL) =>
             /\ glob.gl_fn = c.gl_fn_before
             /\ IF c.called_before
                  THEN /\ Len(glob.log) <= 5
                       /\ \A k \in 1..Len(glob.log) : glob.log[k] = ExitLog[k]
                       /\ c.returned => glob.log = ExitLog
                  ELSE /\ c.returned
                       /\ glob.log = <<>>
                       /\ glob.up = c.up_before
        /\ (c.kind \in {"init", "exit"} /\ c.fn_id # APP_FN_GLOBAL) =>
             /\ c.returned
             /\ glob.log = <<>>
             /\ glob.up = c.up_before
             /\ glob.gl_fn = c.gl_fn_before
             /\ glob.init_called = c.called_before
             /\ c.kind = "init" => c.ret = -1

\* An exit by id has run the whole teardown although the start-up before
\* it had failed and left no component started.
C19_Witness ==
    /\ glob.last.kind = "exit" /\ glob.last.fn_id = APP_FN_GLOBAL
    /\ glob.last.returned
    /\ glob.last.called_before /\ glob.last.up_before = {}
    /\ glob.log = ExitLog

(***************************************************************************)
(* C20: over every sequence of app_init_fn and app_exit_fn calls with      *)
(* APP_FN_GLOBAL, no exit of gl_prov, gl_map or lba_io and no mutex        *)
(* destroy is performed on a component that is not started: one whose init *)
(* did not succeed, or that has been torn down since.                      *)
(***************************************************************************)
C20_TeardownMatched == ~glob.stale

====
